---- MODULE Spec2Model ----
\* Upload ingestion engine of ChunkedHTTPUploadServer.py: the chunk receiver
\* (handle_chunk_upload), the reassembler (handle_finalize_upload), the
\* multipart extractor (deal_post_data) and the response rendering of do_POST,
\* over a filesystem keyed by resolved path.  The server is a plain
\* socketserver.TCPServer (no threading mix-in): one request is handled to
\* completion before the next is accepted, so a handler's steps never
\* interleave with another request's.
EXTENDS Integers, Sequences, FiniteSets, TLC

VARIABLES fs, dirs, pc, cur, resp, hist
vars == <<fs, dirs, pc, cur, resp, hist>>

-----------------------------------------------------------------------------
\* Bounds of the model.

\* Chunk indices range over 0..MaxTotal-1 and declared totals over 0..MaxTotal.
MaxTotal == 2
\* Requests handled in one behaviour, without and with I/O failures.
MaxReqs == 4
MaxFaultReqs == 3
\* The multipart extractor at a small scale: the bytes one body read takes
\* (65536 in the code) and the longest file payload sent.
ReadQuantum == 4
MaxPayload == 16

-----------------------------------------------------------------------------
\* Byte strings are sequences of one-character strings.

Min(a, b) == IF a < b THEN a ELSE b
Max(a, b) == IF a > b THEN a ELSE b

Take(s, n) == SubSeq(s, 1, Min(Max(n, 0), Len(s)))
Drop(s, n) == SubSeq(s, Min(Max(n, 0), Len(s)) + 1, Len(s))

\* s[-n:] and s[:-n] of Python, for n >= 1.
LastN(s, n) == Drop(s, Len(s) - n)
ButLastN(s, n) == Take(s, Len(s) - n)

RECURSIVE Concat(_, _, _)
\* f[lo] \o f[lo+1] \o ... \o f[hi]
Concat(f, lo, hi) == IF lo > hi THEN <<>> ELSE f[lo] \o Concat(f, lo + 1, hi)

-----------------------------------------------------------------------------
\* Paths.  A path is the sequence of its segments; the filesystem root is <<>>.
\* A client-supplied name is the sequence str.split('/') gives, so a leading
\* "/" shows as a first segment "".

\* os.getcwd(): the directory the server was started in.
Root == <<"srv", "www">>

\* A name that starts with "/".
IsAbs(name) == Len(name) >= 2 /\ name[1] = ""

\* os.path.join(base, name): an absolute second argument discards the first.
path_join(base, name) == IF IsAbs(name) THEN name ELSE base \o name

\* The kernel's walk of a joined path: "" and "." stay, ".." goes to the parent
\* (the parent of the filesystem root is itself), and every directory walked
\* through must exist.  walked is the directory reached so far.
RECURSIVE Walk(_, _, _)
Walk(walked, rest, ds) ==
    IF rest = <<>> THEN [ok |-> TRUE, path |-> walked]
    ELSE IF walked \notin ds THEN [ok |-> FALSE, path |-> walked]
    ELSE LET s == Head(rest)
         IN  IF s = "" \/ s = "." THEN Walk(walked, Tail(rest), ds)
             ELSE IF s = ".." THEN Walk(Take(walked, Len(walked) - 1), Tail(rest), ds)
             ELSE Walk(Append(walked, s), Tail(rest), ds)

\* The file a path names: a file directly in an existing directory.
Resolve(p, ds) ==
    LET w == Walk(<<>>, p, ds)
    IN  IF w.ok /\ w.path # <<>> /\ Take(w.path, Len(w.path) - 1) \in ds /\ w.path \notin ds
        THEN w ELSE [ok |-> FALSE, path |-> w.path]

IsPrefix(a, b) == Len(a) <= Len(b) /\ Take(b, Len(a)) = a

\* chunks_dir = os.path.join(os.getcwd(), '.chunks')
chunks_dir == path_join(Root, <<".chunks">>)

\* A formatter that forgets the index.
Fmt_fixed(i) == "0000"

\* f"{i:04d}": the sign counts in the width of 4, zeros fill the rest.
Zeros(k) == IF k <= 0 THEN "" ELSE IF k = 1 THEN "0" ELSE IF k = 2 THEN "00" ELSE "000"
Fmt04d(i) ==
    LET a == IF i < 0 THEN -i ELSE i
        nd == IF a < 10 THEN 1 ELSE IF a < 100 THEN 2 ELSE IF a < 1000 THEN 3 ELSE 4
    IN  IF i < 0 THEN "-" \o Zeros(3 - nd) \o ToString(a)
        ELSE Zeros(4 - nd) \o ToString(a)

\* chunk_path = os.path.join(chunks_dir, f"{filename}.chunk_{i:04d}"): the
\* suffix extends the last segment of the client's filename.
chunk_path(filename, i) ==
    LET n == Len(filename)
        chunk_filename == [filename EXCEPT ![n] = filename[n] \o ".chunk_" \o Fmt04d(i)]
    IN  path_join(chunks_dir, chunk_filename)

\* final_path = os.path.join(os.getcwd(), filename)
final_path(filename) == path_join(Root, filename)

-----------------------------------------------------------------------------
\* The filesystem: fs maps the resolved path of every regular file to its
\* bytes, dirs is the set of directories.

\* A write that lands in every file.
WriteAll(f, p, bytes) == [q \in (DOMAIN f) \cup {p} |-> bytes]

\* A removal that leaves the file in place.
KeepFile(f, p) == f

WriteFile(f, p, bytes) == [q \in (DOMAIN f) \cup {p} |-> IF q = p THEN bytes ELSE f[q]]
RemoveFile(f, p) == [q \in (DOMAIN f) \ {p} |-> f[q]]
NoFiles == [q \in {} |-> <<>>]

\* os.path.exists(p)
path_exists(p, f, ds) ==
    LET w == Walk(<<>>, p, ds) IN w.ok /\ (w.path \in DOMAIN f \/ w.path \in ds)

-----------------------------------------------------------------------------
\* Requests.  A POST carries its route (the start of self.path), the query
\* parameters as parse_qs gives them (strings; "" and <<>> stand for a
\* parameter that is absent, since parse_qs drops blank values), the URL path
\* (its segments), the Content-Type header (the pieces split("=") cuts it
\* into, <<>> when the header is absent), the Content-Length header (NoLen
\* when absent) and the bytes the client sends before it closes the stream.

NoLen == 0 - 1

NoReq == [route |-> "none", chunk |-> "", total |-> "", filename |-> <<>>,
          url |-> <<>>, ctype |-> <<>>, clen |-> NoLen, body |-> <<>>]

ChunkReq(chunk, total, filename, body) ==
    [NoReq EXCEPT !.route = "upload_chunk", !.chunk = chunk, !.total = total,
                  !.filename = filename, !.ctype = <<<<"application/octet-stream">>>>,
                  !.clen = Len(body), !.body = body]

FinalizeReq(filename, total) ==
    [NoReq EXCEPT !.route = "finalize_upload", !.filename = filename, !.total = total]

\* int(s) of a query parameter: the decimal strings are integers, anything
\* else raises ValueError.
IntRange == (0 - MaxTotal - 1) .. (MaxTotal + 1)
IsInt(s) == \E n \in IntRange : ToString(n) = s
int(s) == CHOOSE n \in IntRange : ToString(n) = s

\* A handler that reports success whatever happened.
Result_ok(r, info, f, ds) == [r |-> TRUE, info |-> info, fs |-> f, dirs |-> ds]

\* The (success, detail) value a handler returns; detail is the message and
\* the numbers formatted into it.
Info(msg, nums) == [msg |-> msg, nums |-> nums, files |-> <<>>]
Result(r, info, f, ds) == [r |-> r, info |-> info, fs |-> f, dirs |-> ds]

-----------------------------------------------------------------------------
\* handle_chunk_upload.  The environment decides whether the request meets an
\* I/O failure: "read" (the body read raises), "open" (the blob cannot be
\* opened for writing), "write" (the write raises after `cut` bytes reached
\* the blob, which open(..., 'wb') had already truncated).

ChunkFaults == {"none", "read", "open", "write"}

handle_chunk_upload(req, fault, cut, f, ds) ==
    \* all([chunk_id, total_chunks, filename])
    IF req.chunk = "" \/ req.total = "" \/ req.filename = <<>>
    THEN Result(FALSE, Info("Missing required parameters: chunk, total, filename", <<>>), f, ds)
    ELSE IF ~IsInt(req.chunk) \/ ~IsInt(req.total)
    THEN Result(FALSE, Info("Error uploading chunk", <<>>), f, ds)
    ELSE
    LET chunk_id == int(req.chunk)
        total_chunks == int(req.total)
        \* os.makedirs(chunks_dir, exist_ok=True)
        ds1 == ds \cup {chunks_dir}
        where == Resolve(chunk_path(req.filename, chunk_id), ds1)
        \* int(self.headers.get('content-length', 0))
        content_length == IF req.clen = NoLen THEN 0 ELSE req.clen
        \* self.rfile.read(content_length)
        chunk_data == Take(req.body, content_length)
    IN  IF fault = "read"
        THEN Result(FALSE, Info("Error uploading chunk", <<>>), f, ds1)
        ELSE IF fault = "open" \/ ~where.ok
        THEN Result(FALSE, Info("Error uploading chunk", <<>>), f, ds1)
        ELSE IF fault = "write"
        THEN Result(FALSE, Info("Error uploading chunk", <<>>),
                    WriteFile(f, where.path, Take(chunk_data, cut)), ds1)
        ELSE Result(TRUE, Info("Chunk uploaded successfully", <<chunk_id + 1, total_chunks>>),
                    WriteFile(f, where.path, chunk_data), ds1)

-----------------------------------------------------------------------------
\* handle_finalize_upload, in the steps of its code: the completeness check
\* and the opening of the destination, one step per chunk copied, the return.

\* missing_chunks: the indices of range(total_chunks) with no blob, ascending.
RECURSIVE missing_from(_, _, _, _, _)
missing_from(filename, i, total_chunks, f, ds) ==
    IF i >= total_chunks THEN <<>>
    ELSE (IF path_exists(chunk_path(filename, i), f, ds) THEN <<>> ELSE <<i>>)
         \o missing_from(filename, i + 1, total_chunks, f, ds)

\* A check that stops one index early.
missing_short(filename, total_chunks, f, ds) ==
    missing_from(filename, 0, total_chunks - 1, f, ds)

\* A check that reports the first missing index only.
missing_first(filename, total_chunks, f, ds) ==
    Take(missing_from(filename, 0, total_chunks, f, ds), 1)

missing_chunks(filename, total_chunks, f, ds) == missing_from(filename, 0, total_chunks, f, ds)

\* The handler's locals between two steps, and the request being handled.
IdleCur == [req |-> NoReq, pre |-> NoFiles, fault |-> "none", dest |-> <<>>,
            i |-> 0, total_size |-> 0,
            boundary |-> <<>>, remainbytes |-> 0, pos |-> 0, fn |-> <<>>,
            uploaded_files |-> <<>>, buffer |-> <<>>, bytes_written |-> 0,
            data_start |-> 0]

\* do_POST after the handler returned (r, info): the result page is always
\* sent with send_response(200), "Success!" or "Failed!" in its body.
do_POST(r, info) ==
    [status |-> 200, page |-> IF r THEN "Success!" ELSE "Failed!", r |-> r, info |-> info]

\* No response was sent.
NoResp == [status |-> 0, page |-> "", r |-> FALSE, info |-> Info("", <<>>)]

\* The request ends: the handler's result res is rendered and the request is
\* logged with the filesystem it found (pre) and the failure it met (fault).
Finish(req, pre, fault, res) ==
    /\ fs' = res.fs
    /\ dirs' = res.dirs
    /\ resp' = do_POST(res.r, res.info)
    /\ hist' = Append(hist, [req |-> req, ok |-> res.r, info |-> res.info,
                             pre |-> pre, fault |-> fault])
    /\ pc' = "idle"
    /\ cur' = IdleCur

\* A server that accepts while a request is handled.
AlwaysAccepting == TRUE

\* serve_forever accepts the next request once the previous one was handled
\* (lines 810-815: a TCPServer without a threading mix-in).
Accepting == pc = "idle"

\* A failure can only be met by a request that gets as far as the I/O.
ChunkFaultMet(req, fault, cut) ==
    \/ fault = "none" /\ cut = 0
    \/ /\ fault \in {"read", "open"} /\ cut = 0
       /\ req.chunk # "" /\ req.total # "" /\ req.filename # <<>>
       /\ IsInt(req.chunk) /\ IsInt(req.total)
    \/ /\ fault = "write" /\ cut \in 0 .. (Min(req.clen, Len(req.body)) - 1)
       /\ req.chunk # "" /\ req.total # "" /\ req.filename # <<>>
       /\ IsInt(req.chunk) /\ IsInt(req.total)
       /\ Resolve(chunk_path(req.filename, int(req.chunk)), dirs \cup {chunks_dir}).ok

ChunkUpload(req, fault, cut) ==
    /\ Accepting
    /\ req.route = "upload_chunk"
    /\ ChunkFaultMet(req, fault, cut)
    /\ Finish(req, fs, fault, handle_chunk_upload(req, fault, cut, fs, dirs))

\* handle_chunk_upload in two steps, for the time a request spends in it:
\* lines 703-728 up to the read of the body, where the handler waits for the
\* client's bytes (pc = "reading"), then lines 729-739.  A request that fails
\* validation returns before the read.
ChunkAccept(req) ==
    /\ Accepting
    /\ req.route = "upload_chunk"
    /\ IF \/ req.chunk = "" \/ req.total = "" \/ req.filename = <<>>
          \/ ~IsInt(req.chunk) \/ ~IsInt(req.total)
       THEN Finish(req, fs, "none", handle_chunk_upload(req, "none", 0, fs, dirs))
       ELSE /\ pc' = "reading"
            /\ cur' = [IdleCur EXCEPT !.req = req, !.pre = fs]
            /\ dirs' = dirs \cup {chunks_dir}
            /\ UNCHANGED <<fs, resp, hist>>

ChunkBody(fault, cut) ==
    /\ pc = "reading"
    /\ ChunkFaultMet(cur.req, fault, cut)
    /\ Finish(cur.req, cur.pre, fault, handle_chunk_upload(cur.req, fault, cut, fs, dirs))

\* Lines 743-773: parameters, the completeness check, open(final_path, 'wb').
FinalizeStart(req, fault) ==
    /\ Accepting
    /\ req.route = "finalize_upload"
    /\ fault \in {"none", "open"}
    /\ IF req.filename = <<>> \/ req.total = ""
       THEN /\ fault = "none"
            /\ Finish(req, fs, fault,
                      Result(FALSE, Info("Missing required parameters: filename, total", <<>>), fs, dirs))
       ELSE IF ~IsInt(req.total)
       THEN /\ fault = "none"
            /\ Finish(req, fs, fault, Result(FALSE, Info("Error finalizing upload", <<>>), fs, dirs))
       ELSE LET total_chunks == int(req.total)
                missing == missing_chunks(req.filename, total_chunks, fs, dirs)
                where == Resolve(final_path(req.filename), dirs)
            IN  IF missing # <<>>
                THEN /\ fault = "none"
                     /\ Finish(req, fs, fault, Result(FALSE, Info("Missing chunks", missing), fs, dirs))
                ELSE IF fault = "open" \/ ~where.ok
                THEN Finish(req, fs, fault, Result(FALSE, Info("Error finalizing upload", <<>>), fs, dirs))
                ELSE /\ fs' = WriteFile(fs, where.path, <<>>)
                     /\ pc' = "assemble"
                     /\ cur' = [IdleCur EXCEPT !.req = req, !.pre = fs, !.dest = where.path]
                     /\ UNCHANGED <<dirs, resp, hist>>

AssembleFaults == {"none", "read", "write", "remove"}

\* Lines 774-784, one iteration: read blob i, append it to the destination,
\* os.remove the blob.  A failure leaves what was done before it raised.
FinalizeCopy(fault, cut) ==
    /\ pc = "assemble"
    /\ cur.i < int(cur.req.total)
    /\ fault \in AssembleFaults
    /\ LET src == Resolve(chunk_path(cur.req.filename, cur.i), dirs)
           failed(f) == Finish(cur.req, cur.pre, fault,
                               Result(FALSE, Info("Error finalizing upload", <<>>), f, dirs))
       IN  IF ~src.ok \/ src.path \notin DOMAIN fs
           THEN fault = "none" /\ cut = 0 /\ failed(fs)
           ELSE LET chunk_data == fs[src.path]
                    written(n) == WriteFile(fs, cur.dest, fs[cur.dest] \o Take(chunk_data, n))
                IN  CASE fault = "read" -> cut = 0 /\ failed(fs)
                      [] fault = "write" -> cut \in 0 .. (Len(chunk_data) - 1) /\ failed(written(cut))
                      [] fault = "remove" -> cut = 0 /\ failed(written(Len(chunk_data)))
                      [] fault = "none" ->
                           /\ cut = 0
                           /\ fs' = RemoveFile(written(Len(chunk_data)), src.path)
                           /\ cur' = [cur EXCEPT !.i = cur.i + 1,
                                                 !.total_size = cur.total_size + Len(chunk_data)]
                           /\ UNCHANGED <<dirs, pc, resp, hist>>

\* Line 788: every chunk was copied.
FinalizeReturn ==
    /\ pc = "assemble"
    /\ cur.i >= int(cur.req.total)
    /\ Finish(cur.req, cur.pre, "none",
              Result(TRUE, Info("File uploaded successfully", <<cur.total_size>>), fs, dirs))

-----------------------------------------------------------------------------
\* deal_post_data, the multipart extractor.  The body is a sequence of bytes;
\* the text of a header up to the file name is one token, CD for
\* 'Content-Disposition: form-data; name="file"; filename="' and CT for a
\* Content-Type line, QT is the closing quote.

CR == "CR"
LF == "LF"
DASH == "-"
CD == "CD"
CT == "CT"
QT == "QT"
SLASH == "/"

\* max_chunk_size (50 MiB in the code), at the model's scale: the flush
\* threshold, larger than the tail a flush keeps.
max_chunk_size == 13
\* keep_size = len(boundary) + 10
KeepExtra == 10

\* bytes.find(pat): the first offset (from 0) where pat occurs, -1 if none.
Occurs(s, pat, k) == k + Len(pat) <= Len(s) /\ SubSeq(s, k + 1, k + Len(pat)) = pat
find(s, pat) ==
    LET hits == {k \in 0 .. Len(s) : Occurs(s, pat, k)}
    IN  IF hits = {} THEN 0 - 1 ELSE CHOOSE k \in hits : \A x \in hits : k <= x

endswith(s, suffix) == Len(s) >= Len(suffix) /\ LastN(s, Len(suffix)) = suffix

\* Lines 443-447 and 477-481: drop one trailing CRLF, else one trailing LF.
strip_eol(s) ==
    IF endswith(s, <<CR, LF>>) THEN ButLastN(s, 2)
    ELSE IF endswith(s, <<LF>>) THEN ButLastN(s, 1)
    ELSE s

\* A line read that takes the rest of the stream.
readline_all(body, pos) == Drop(body, pos)

\* rfile.readline() at offset pos: through the next LF, or to the end of the
\* stream.
readline(body, pos) ==
    LET rest == Drop(body, pos)
        k == find(rest, <<LF>>)
    IN  IF k < 0 THEN rest ELSE Take(rest, k + 1)

\* A read that makes up the bytes the stream does not have.
read_fill(body, pos, n) ==
    [k \in 1 .. n |-> IF pos + k <= Len(body) THEN body[pos + k] ELSE "a"]

\* rfile.read(n) at offset pos: n bytes, fewer only at the end of the stream.
read(body, pos, n) == Take(Drop(body, pos), n)

\* Every line names the file "a".
filename_any(line) == <<<<"a">>>>

\* re.findall(r'Content-Disposition.*name="file"; filename="(.*)"', line): the
\* bytes between the header token and the last quote of the line, <<>> if the
\* line does not match; the match is returned in a one-element list.
filename_of(line) ==
    LET c == find(line, <<CD>>)
        quotes == {q \in 1 .. Len(line) : line[q] = QT /\ q > c + 1}
    IN  IF c < 0 \/ quotes = {} THEN <<>>
        ELSE <<SubSeq(line, c + 2, (CHOOSE q \in quotes : \A x \in quotes : x <= q) - 1)>>

\* str.split('/') of a name given as tokens: SLASH separates the segments.
RECURSIVE split_slash(_, _)
split_slash(toks, seg) ==
    IF toks = <<>> THEN <<seg>>
    ELSE IF Head(toks) = SLASH THEN <<seg>> \o split_slash(Tail(toks), "")
    ELSE split_slash(Tail(toks), seg \o Head(toks))

\* posixpath.normpath of the URL path followed by the filter of
\* translate_path (lines 640-648): "" and "." are dropped, ".." removes the
\* segment before it, and the words left are joined below os.getcwd().
RECURSIVE normpath(_, _)
normpath(done, rest) ==
    IF rest = <<>> THEN done
    ELSE LET w == Head(rest)
         IN  IF w = "" \/ w = "." THEN normpath(done, Tail(rest))
             ELSE IF w = ".." THEN normpath(Take(done, Len(done) - 1), Tail(rest))
             ELSE normpath(Append(done, w), Tail(rest))

translate_path(url) ==
    LET words == normpath(<<>>, url)
    IN  Root \o SelectSeq(words, LAMBDA w : w # "." /\ w # "..")

\* A tail of one byte.
keep_one(boundary) == 1

\* keep_size of the flush (line 463).
keep_size(boundary) == Len(boundary) + KeepExtra

\* A flush that keeps no tail.
flush_all(buffer, boundary) == [write_data |-> buffer, buffer |-> <<>>]

\* A flush that writes nothing.
flush_none(buffer, boundary) == [write_data |-> <<>>, buffer |-> buffer]

\* Lines 464-468: the flush writes buffer[:-keep_size], keeps buffer[-keep_size:].
flush(buffer, boundary) ==
    [write_data |-> ButLastN(buffer, keep_size(boundary)),
     buffer |-> LastN(buffer, keep_size(boundary))]

\* An exception no handler catches ends the request without a response:
\* do_POST never reaches send_response.
Escape(req, pre, fault, f, ds) ==
    /\ fs' = f
    /\ dirs' = ds
    /\ resp' = NoResp
    /\ hist' = Append(hist, [req |-> req, ok |-> FALSE,
                             info |-> Info("unhandled exception", <<>>),
                             pre |-> pre, fault |-> fault])
    /\ pc' = "idle"
    /\ cur' = IdleCur

\* Lines 372-390: the boundary, the declared length, the first line.
PostStart(req) ==
    /\ Accepting
    /\ req.route = "form"
    /\ IF req.ctype = <<>>
       THEN Finish(req, fs, "none",
                   Result(FALSE, Info("Content-Type header doesn't contain boundary", <<>>), fs, dirs))
       ELSE IF Len(req.ctype) < 2 \/ req.clen = NoLen
       THEN Escape(req, fs, "none", fs, dirs)
       ELSE LET boundary == req.ctype[2]
                line == readline(req.body, 0)
            IN  IF find(line, boundary) < 0
                THEN Finish(req, fs, "none",
                            Result(FALSE, Info("Content NOT begin with boundary", <<>>), fs, dirs))
                ELSE /\ pc' = "part"
                     /\ cur' = [IdleCur EXCEPT !.req = req, !.pre = fs, !.boundary = boundary,
                                               !.remainbytes = req.clen - Len(line),
                                               !.pos = Len(line)]
                     /\ UNCHANGED <<fs, dirs, resp, hist>>

\* os.path.basename of every uploaded file, for the detail of the result.
basenames(files) == [k \in DOMAIN files |-> files[k][Len(files[k])]]

\* Lines 392-422: the loop test, the headers of the part, open(fn, 'wb').
\* Each of the three lines read, the file name and the resolved path is one
\* value, bound where the code assigns it.
PostPart(fault) ==
    /\ pc = "part"
    /\ fault \in {"none", "open"}
    /\ IF cur.remainbytes <= 0
       THEN /\ fault = "none"
            /\ Finish(cur.req, cur.pre, cur.fault,
                      Result(TRUE, [msg |-> "uploaded", nums |-> <<>>,
                                    files |-> basenames(cur.uploaded_files)], fs, dirs))
       ELSE \E line1 \in {readline(cur.req.body, cur.pos)} :
            \E line2 \in {readline(cur.req.body, cur.pos + Len(line1))} :
            \E line3 \in {readline(cur.req.body, cur.pos + Len(line1) + Len(line2))} :
            LET fnm == filename_of(line1)
                hdr == Len(line1) + Len(line2) + Len(line3)
            IN  IF fnm = <<>>
                THEN /\ fault = "none"
                     /\ Finish(cur.req, cur.pre, cur.fault,
                               Result(FALSE, Info("Can't find out file name...", <<>>), fs, dirs))
                ELSE \E fn \in {path_join(translate_path(cur.req.url), split_slash(fnm[1], ""))} :
                     \E where \in {Resolve(fn, dirs)} :
                         IF fault = "open" \/ ~where.ok
                         THEN Finish(cur.req, cur.pre, fault,
                                     Result(FALSE, Info("Can't create file to write.", <<>>), fs, dirs))
                         ELSE /\ fs' = WriteFile(fs, where.path, <<>>)
                              /\ pc' = "body"
                              /\ cur' = [cur EXCEPT !.remainbytes = cur.remainbytes - hdr,
                                                    !.pos = cur.pos + hdr,
                                                    !.data_start = cur.pos + hdr,
                                                    !.fn = fn, !.dest = where.path,
                                                    !.buffer = <<>>, !.bytes_written = 0]
                              /\ UNCHANGED <<dirs, resp, hist>>

\* Lines 424-472, one iteration of the body loop.
PostBody ==
    /\ pc = "body"
    /\ LET read_size == Min(Min(max_chunk_size, cur.remainbytes), ReadQuantum)
           chunk == read(cur.req.body, cur.pos, read_size)
           remainbytes == cur.remainbytes - Len(chunk)
           buffer == cur.buffer \o chunk
           boundary_pos == find(buffer, cur.boundary)
           out(bytes) == WriteFile(fs, cur.dest, fs[cur.dest] \o bytes)
       IN  IF cur.remainbytes <= 0 \/ chunk = <<>>
           THEN /\ pc' = "tail"
                /\ UNCHANGED <<fs, dirs, cur, resp, hist>>
           ELSE IF boundary_pos # 0 - 1
           THEN LET file_data == strip_eol(Take(buffer, boundary_pos))
                    remaining_buffer == Drop(buffer, boundary_pos)
                IN  /\ fs' = out(file_data)
                    /\ pc' = "tail"
                    /\ cur' = [cur EXCEPT !.pos = cur.pos + Len(chunk),
                                          !.buffer = buffer,
                                          !.bytes_written = cur.bytes_written + Len(file_data),
                                          !.remainbytes = remainbytes + Len(remaining_buffer) - Len(buffer),
                                          !.uploaded_files = Append(cur.uploaded_files, cur.fn)]
                    /\ UNCHANGED <<dirs, resp, hist>>
           ELSE IF Len(buffer) > max_chunk_size
           THEN LET fl == flush(buffer, cur.boundary)
                IN  /\ fs' = out(fl.write_data)
                    /\ cur' = [cur EXCEPT !.pos = cur.pos + Len(chunk),
                                          !.remainbytes = remainbytes,
                                          !.buffer = fl.buffer,
                                          !.bytes_written = cur.bytes_written + Len(fl.write_data)]
                    /\ UNCHANGED <<dirs, pc, resp, hist>>
           ELSE /\ cur' = [cur EXCEPT !.pos = cur.pos + Len(chunk),
                                      !.remainbytes = remainbytes,
                                      !.buffer = buffer]
                /\ UNCHANGED <<fs, dirs, pc, resp, hist>>

InSeq(x, s) == \E k \in DOMAIN s : s[k] = x

\* Lines 474-485: the file that ended without a boundary, then the part loop
\* again.
PostTail ==
    /\ pc = "tail"
    /\ pc' = "part"
    /\ IF cur.remainbytes <= 0 /\ ~InSeq(cur.fn, cur.uploaded_files)
       THEN LET buffer == strip_eol(cur.buffer)
                writes == cur.buffer # <<>> /\ find(cur.buffer, cur.boundary) < 0
            IN  /\ fs' = IF writes THEN WriteFile(fs, cur.dest, fs[cur.dest] \o buffer) ELSE fs
                /\ cur' = [cur EXCEPT !.buffer = IF writes THEN buffer ELSE cur.buffer,
                                      !.bytes_written = cur.bytes_written + (IF writes THEN Len(buffer) ELSE 0),
                                      !.uploaded_files = Append(cur.uploaded_files, cur.fn)]
       ELSE UNCHANGED <<fs, cur>>
    /\ UNCHANGED <<dirs, resp, hist>>

-----------------------------------------------------------------------------
\* The server after start-up: no upload yet, the working directory exists.

Init ==
    /\ fs = NoFiles
    /\ dirs = {<<>>, <<"srv">>, Root}
    /\ pc = "idle"
    /\ cur = IdleCur
    /\ resp = NoResp
    /\ hist = <<>>

\* The requests of the chunked-upload protocol for one file name: every index
\* and total within the bounds, two payloads, and requests lacking a parameter.
Names == {<<"a">>}
Payloads == {<<"x">>, <<"y", "z">>}

ChunkRequests ==
    {ChunkReq(ToString(i), ToString(MaxTotal), n, d) :
        i \in 0 .. (MaxTotal - 1), n \in Names, d \in Payloads}
    \cup {ChunkReq("0", "", <<"a">>, <<"x">>)}

FinalizeRequests ==
    {FinalizeReq(n, ToString(t)) : n \in Names, t \in 0 .. MaxTotal}
    \cup {FinalizeReq(<<"a">>, "")}

\* The protocol on a filesystem that does not fail.
Next ==
    \/ /\ Len(hist) < MaxReqs
       /\ \E req \in ChunkRequests : ChunkUpload(req, "none", 0)
    \/ /\ Len(hist) < MaxReqs
       /\ \E req \in FinalizeRequests : FinalizeStart(req, "none")
    \/ FinalizeCopy("none", 0)
    \/ FinalizeReturn

Spec == Init /\ [][Next]_vars

\* The protocol with the I/O failures the environment can raise.
Cuts == 0 .. 1

NextFault ==
    \/ /\ Len(hist) < MaxFaultReqs
       /\ \E req \in ChunkRequests, fault \in ChunkFaults, cut \in Cuts :
             ChunkUpload(req, fault, cut)
    \/ /\ Len(hist) < MaxFaultReqs
       /\ \E req \in FinalizeRequests, fault \in {"none", "open"} : FinalizeStart(req, fault)
    \/ \E fault \in AssembleFaults, cut \in Cuts : FinalizeCopy(fault, cut)
    \/ FinalizeReturn

SpecFault == Init /\ [][NextFault]_vars

\* The protocol with the failures of the copy loop only: chunks are stored
\* without failure, a finalize can fail at open and at the read, the write and
\* the removal of every chunk.
MaxAssembleReqs == 3

NextAssemble ==
    \/ /\ Len(hist) < MaxAssembleReqs
       /\ \E req \in ChunkRequests : ChunkUpload(req, "none", 0)
    \/ /\ Len(hist) < MaxAssembleReqs
       /\ \E req \in FinalizeRequests, fault \in {"none", "open"} : FinalizeStart(req, fault)
    \/ \E fault \in AssembleFaults, cut \in Cuts : FinalizeCopy(fault, cut)
    \/ FinalizeReturn

SpecAssemble == Init /\ [][NextAssemble]_vars

\* The multipart bodies a browser sends for the upload form: one file part
\* with a Content-Disposition and a Content-Type line, delimiter lines of "--"
\* and the boundary token, the closing delimiter after a CRLF.
Boundary == <<"X", "Y">>

PartHead(fname) ==
    <<DASH, DASH>> \o Boundary \o <<CR, LF>>
    \o <<CD>> \o fname \o <<QT, CR, LF>>
    \o <<CT, CR, LF>>
    \o <<CR, LF>>

PartEnd == <<CR, LF, DASH, DASH>> \o Boundary \o <<DASH, DASH, CR, LF>>

Encode(fname, B) == PartHead(fname) \o B \o PartEnd

FormReq(url, fname, B) ==
    [NoReq EXCEPT !.route = "form", !.url = url,
                  !.ctype = <<<<"multipart/form-data; boundary">>, Boundary>>,
                  !.clen = Len(Encode(fname, B)), !.body = Encode(fname, B)]

\* File payloads: n bytes "a", with one piece s at offset p that looks like a
\* line end or like part of a delimiter.
Filler(n) == [k \in 1 .. n |-> "a"]
Pieces == {<<>>, <<"X">>, <<LF>>, <<CR, LF>>, <<DASH, DASH, "X">>}
FilePayloads ==
    {Filler(p) \o s \o Filler(n - p - Len(s)) :
        <<n, p, s>> \in {t \in (0 .. MaxPayload) \X (0 .. MaxPayload) \X Pieces :
                            t[2] + Len(t[3]) <= t[1]}}

ExtractRequests == {FormReq(<<>>, <<"a">>, B) : B \in FilePayloads}

NextExtract ==
    \/ /\ Len(hist) < 1
       /\ \E req \in ExtractRequests : PostStart(req)
    \/ PostPart("none")
    \/ PostBody
    \/ PostTail

SpecExtract == Init /\ [][NextExtract]_vars

\* Requests whose filename is not a plain name: parent-directory segments and
\* a leading "/", on all three upload routes.
MaxPathReqs == 3

PathNames == {<<"a">>, <<"..", "a">>, <<"..", "..", "a">>, <<"", "srv", "a">>}

\* The filename as it travels inside a Content-Disposition line.
RECURSIVE join_slash(_)
join_slash(name) ==
    IF Len(name) = 1 THEN <<name[1]>>
    ELSE <<name[1], SLASH>> \o join_slash(Tail(name))

PathChunkRequests == {ChunkReq("0", "1", n, <<"x">>) : n \in PathNames}
PathFinalizeRequests == {FinalizeReq(n, "1") : n \in PathNames}
PathFormRequests == {FormReq(<<>>, join_slash(n), <<"x">>) : n \in PathNames}

NextPath ==
    \/ /\ Len(hist) < MaxPathReqs
       /\ \E req \in PathChunkRequests : ChunkUpload(req, "none", 0)
    \/ /\ Len(hist) < MaxPathReqs
       /\ \E req \in PathFinalizeRequests : FinalizeStart(req, "none")
    \/ FinalizeCopy("none", 0)
    \/ FinalizeReturn
    \/ /\ Len(hist) < MaxPathReqs
       /\ \E req \in PathFormRequests : PostStart(req)
    \/ PostPart("none")
    \/ PostBody
    \/ PostTail

SpecPath == Init /\ [][NextPath]_vars

\* The chunk protocol of two files, with the time a chunk-receive waits for
\* its body made visible.
MaxServeReqs == 3

ServeNames == {<<"a">>, <<"b">>}

ServeChunkRequests ==
    {ChunkReq(ToString(i), ToString(MaxTotal), n, <<"x">>) :
        i \in 0 .. (MaxTotal - 1), n \in ServeNames}

ServeFinalizeRequests == {FinalizeReq(n, ToString(MaxTotal)) : n \in ServeNames}

NextServe ==
    \/ /\ Len(hist) < MaxServeReqs
       /\ \E req \in ServeChunkRequests \cup {ChunkReq("0", "", <<"a">>, <<"x">>)} :
             ChunkAccept(req)
    \/ ChunkBody("none", 0)
    \/ /\ Len(hist) < MaxServeReqs
       /\ \E req \in ServeFinalizeRequests : FinalizeStart(req, "none")
    \/ FinalizeCopy("none", 0)
    \/ FinalizeReturn

SpecServe == Init /\ [][NextServe]_vars

\* Chunk-protocol requests as any client can send them: each parameter
\* present or absent, indices below zero and at the declared total, totals of
\* zero, and a body that ends before the declared Content-Length.
MaxWideReqs == 2

WideBody == <<"x", "y">>

WideChunkRequests ==
    {[ChunkReq(c, t, n, WideBody) EXCEPT !.clen = Len(WideBody) + extra] :
        c \in {"", "-1", "0", ToString(MaxTotal)}, t \in {"", "0", "1"},
        n \in {<<>>, <<"a">>}, extra \in {0, 1}}

WideFinalizeRequests == {FinalizeReq(n, t) : n \in {<<>>, <<"a">>}, t \in {"", "1"}}

NextWide ==
    \/ /\ Len(hist) < MaxWideReqs
       /\ \E req \in WideChunkRequests : ChunkUpload(req, "none", 0)
    \/ /\ Len(hist) < MaxWideReqs
       /\ \E req \in WideFinalizeRequests : FinalizeStart(req, "none")
    \/ FinalizeCopy("none", 0)
    \/ FinalizeReturn

SpecWide == Init /\ [][NextWide]_vars

\* Multipart requests a client can send beyond the well-formed single part:
\* a first line without the boundary, a Content-Type header without
\* "boundary=", no Content-Type or no Content-Length header, a part without a
\* file name, a stream the client closes early, and a second part after the
\* first file.
MaxFormReqs == 2

FormPayload == <<"h">>

\* Two file parts, as the form's <input type="file" multiple/> sends them.
Encode2(fname1, B1, fname2, B2) ==
    PartHead(fname1) \o B1 \o <<CR, LF>> \o PartHead(fname2) \o B2 \o PartEnd

TwoParts(fname1, B1, fname2, B2) ==
    [FormReq(<<>>, fname1, B1) EXCEPT !.clen = Len(Encode2(fname1, B1, fname2, B2)),
                                      !.body = Encode2(fname1, B1, fname2, B2)]

\* The client closes the stream after k bytes of the body it declared.
Truncated(req, k) == [req EXCEPT !.body = Take(req.body, k)]

WholeForm == FormReq(<<>>, <<"a">>, FormPayload)

MalformedRequests ==
    {[WholeForm EXCEPT !.body = <<DASH, DASH, "Z", "Z", CR, LF>> \o Drop(WholeForm.body, 6)],
     [WholeForm EXCEPT !.body = <<CR, LF>> \o Drop(WholeForm.body, 6)],
     [WholeForm EXCEPT !.ctype = <<<<"multipart/form-data">>>>],
     [WholeForm EXCEPT !.ctype = <<>>],
     [WholeForm EXCEPT !.clen = NoLen],
     [WholeForm EXCEPT !.body = [k \in DOMAIN WholeForm.body |->
                                    IF WholeForm.body[k] = CD THEN CT ELSE WholeForm.body[k]]]}

\* A file longer than the flush threshold.
LongForm == FormReq(<<>>, <<"a">>, Filler(max_chunk_size + 1))

\* The stream ends in the first line, in the part headers, in the file data
\* (before and after a flush) or inside the closing delimiter.
TruncatedRequests ==
    {Truncated(WholeForm, k) : k \in 0 .. (Len(WholeForm.body) - 1)}
    \cup {Truncated(LongForm, k) :
             k \in {Len(PartHead(<<"a">>)) + max_chunk_size + 1,
                    Len(LongForm.body) - 6, Len(LongForm.body) - 5}}

TwoPartRequests ==
    {TwoParts(<<"a">>, FormPayload, <<"b">>, B2) : B2 \in {<<>>, Filler(ReadQuantum)}}

FormRequests ==
    {WholeForm, FormReq(<<>>, <<"b">>, <<>>)}
    \cup MalformedRequests \cup TwoPartRequests

\* A truncated stream is explored as the first request of a run, the other
\* requests at every position.
NextForm ==
    \/ /\ Len(hist) < MaxFormReqs
       /\ \E req \in FormRequests : PostStart(req)
    \/ /\ hist = <<>>
       /\ \E req \in TruncatedRequests : PostStart(req)
    \/ \E fault \in {"none", "open"} : PostPart(fault)
    \/ PostBody
    \/ PostTail

SpecForm == Init /\ [][NextForm]_vars

\* Uploads of two files on both routes, with the storage failures a
\* chunk-receive can meet and multipart requests that fail.
MaxIsoReqs == 3

IsoChunkRequests ==
    {ChunkReq(i, "2", n, <<"x">>) : i \in {"0", "1"}, n \in ServeNames}

IsoFinalizeRequests == {FinalizeReq(n, "2") : n \in ServeNames}

IsoFormRequests ==
    {WholeForm,
     Truncated(WholeForm, Len(PartHead(<<"a">>))),
     TwoParts(<<"b">>, FormPayload, <<"a">>, Filler(ReadQuantum))}

NextIso ==
    \/ /\ Len(hist) < MaxIsoReqs
       /\ \E req \in IsoChunkRequests, fault \in {"none", "open", "write"}, cut \in Cuts :
             ChunkUpload(req, fault, cut)
    \/ /\ Len(hist) < MaxIsoReqs
       /\ \E req \in IsoFinalizeRequests : FinalizeStart(req, "none")
    \/ FinalizeCopy("none", 0)
    \/ FinalizeReturn
    \/ /\ Len(hist) < MaxIsoReqs
       /\ \E req \in IsoFormRequests : PostStart(req)
    \/ \E fault \in {"none", "open"} : PostPart(fault)
    \/ PostBody
    \/ PostTail

SpecIso == Init /\ [][NextIso]_vars

\* Multipart requests whose headers and body disagree, or whose part headers
\* are not the two lines a browser sends: a Content-Length below or above the
\* length of the body, a part without a Content-Type line, a part with one
\* header line more.
PlainHead(fname) ==
    <<DASH, DASH>> \o Boundary \o <<CR, LF>>
    \o <<CD>> \o fname \o <<QT, CR, LF>>
    \o <<CR, LF>>

ExtraHead(fname) ==
    <<DASH, DASH>> \o Boundary \o <<CR, LF>>
    \o <<CD>> \o fname \o <<QT, CR, LF>>
    \o <<CT, CR, LF>>
    \o <<CT, CR, LF>>
    \o <<CR, LF>>

PartHeads(fname) == {PartHead(fname), PlainHead(fname), ExtraHead(fname)}

ShapedForm(head, B) ==
    [WholeForm EXCEPT !.clen = Len(head \o B \o PartEnd), !.body = head \o B \o PartEnd]

\* The client declares k bytes whatever the body holds.
Declared(req, k) == [req EXCEPT !.clen = k]

ShapePayloads == {<<>>, <<"h">>, <<"h", LF, "i">>}

ShapeRequests ==
    {Declared(WholeForm, k) : k \in 0 .. (Len(WholeForm.body) + 2)}
    \cup {Declared(LongForm, k) : k \in 0 .. (Len(LongForm.body) + 2)}
    \cup {Truncated(LongForm, k) : k \in 0 .. Len(LongForm.body)}
    \cup {ShapedForm(H, B) : H \in PartHeads(<<"a">>), B \in ShapePayloads}

NextShape ==
    \/ /\ Len(hist) < 1
       /\ \E req \in ShapeRequests : PostStart(req)
    \/ PostPart("none")
    \/ PostBody
    \/ PostTail

SpecShape == Init /\ [][NextShape]_vars

\* The handler runs to its return once it has started: no step of it waits for
\* anything but the next bytes of the stream, and a read at the end of the
\* stream returns at once.
SpecShapeLive ==
    /\ Init
    /\ [][NextShape]_vars
    /\ WF_vars(PostPart("none"))
    /\ WF_vars(PostBody)
    /\ WF_vars(PostTail)

-----------------------------------------------------------------------------
\* Properties of the chunked-upload protocol, stated over the request log.

\* The filesystem the j-th logged request left behind.
PostFs(j) ==
    IF j < Len(hist) THEN hist[j + 1].pre ELSE IF pc = "idle" THEN fs ELSE cur.pre

\* Where the blob of (n, i) and the destination of n live.
BlobPath(n, i) == Resolve(chunk_path(n, i), dirs \cup {chunks_dir}).path
DestPath(n) == Resolve(final_path(n), dirs).path

Nums(e) == {e.info.nums[x] : x \in DOMAIN e.info.nums}

\* Entry m is a chunk-receive of (n, i) that reported success.
StoredChunk(m, n, i) ==
    /\ hist[m].req.route = "upload_chunk"
    /\ hist[m].req.filename = n
    /\ hist[m].req.chunk = ToString(i)
    /\ hist[m].ok

\* Entries lo..hi are successful chunk-receives of n, one for each index of I.
OnceEach(lo, hi, n, I) ==
    /\ hi - lo + 1 = Cardinality(I)
    /\ \A m \in lo .. hi : \E i \in I : StoredChunk(m, n, i)
    /\ \A i \in I : \E m \in lo .. hi : StoredChunk(m, n, i)

\* The payload entries lo..hi sent for index i.
Sent(lo, hi, n, i) == hist[CHOOSE m \in lo .. hi : StoredChunk(m, n, i)].req.body

\* C1: once every index 0..k-1 of a file was received once, in any order, and
\* finalize(k) follows, finalize succeeds and the destination is the chunks
\* concatenated in ascending index order, its length their total length.
C1_ReassemblyInOrder ==
    \A j \in 1 .. Len(hist) : \A k \in 1 .. MaxTotal : \A n \in Names :
        (/\ j > k
         /\ hist[j].req = FinalizeReq(n, ToString(k))
         /\ hist[j].fault = "none"
         /\ OnceEach(j - k, j - 1, n, 0 .. (k - 1)))
        => LET B == Concat([i \in 0 .. (k - 1) |-> Sent(j - k, j - 1, n, i)], 0, k - 1)
           IN  /\ hist[j].ok
               /\ DestPath(n) \in DOMAIN PostFs(j)
               /\ PostFs(j)[DestPath(n)] = B
               /\ hist[j].info = Info("File uploaded successfully", <<Len(B)>>)

\* Chunk 1 arrived before chunk 0, with different payloads, and finalize(2) ran.
C1_Witness ==
    /\ Len(hist) >= 3
    /\ hist[3].req = FinalizeReq(<<"a">>, "2")
    /\ StoredChunk(1, <<"a">>, 1) /\ hist[1].req.body = <<"x">>
    /\ StoredChunk(2, <<"a">>, 0) /\ hist[2].req.body = <<"y", "z">>
    /\ hist[3].ok

\* The indices below t that have no blob in filesystem f.
Absent(f, n, t) == {i \in 0 .. (t - 1) : BlobPath(n, i) \notin DOMAIN f}

IncompleteFinalize(e) ==
    /\ e.req.route = "finalize_upload"
    /\ e.req.filename # <<>>
    /\ IsInt(e.req.total)
    /\ Absent(e.pre, e.req.filename, int(e.req.total)) # {}

\* C2: a finalize that finds an index below its total without a blob fails,
\* lists exactly the absent indices, and leaves every file and blob as it was.
C2_IncompleteDetected ==
    \A j \in 1 .. Len(hist) :
        IncompleteFinalize(hist[j])
        => LET e == hist[j]
               gone == Absent(e.pre, e.req.filename, int(e.req.total))
           IN  /\ ~e.ok
               /\ e.info.msg = "Missing chunks"
               /\ Nums(e) = gone
               /\ Len(e.info.nums) = Cardinality(gone)
               /\ PostFs(j) = e.pre

\* Chunk 0 is stored, chunk 1 is not, and finalize(2) was answered.
C2_Witness ==
    /\ Len(hist) >= 2
    /\ StoredChunk(1, <<"a">>, 0)
    /\ hist[2].req = FinalizeReq(<<"a">>, "2")
    /\ IncompleteFinalize(hist[2])

\* The latest chunk-receive of (n, i) that reported success, 0 if none.
LatestStored(n, i) ==
    LET S == {m \in 1 .. Len(hist) : StoredChunk(m, n, i)}
    IN  IF S = {} THEN 0 ELSE CHOOSE m \in S : \A x \in S : x <= m

\* C5: after any sequence of chunk-receives of one (filename, index), the blob
\* holds the payload of the latest call that succeeded, whatever calls failed
\* after it.
C5_LatestPayloadKept ==
    \A n \in Names : \A i \in 0 .. (MaxTotal - 1) :
        LET m == LatestStored(n, i)
        IN  (/\ m > 0
             /\ pc = "idle"
             /\ \A x \in (m + 1) .. Len(hist) : hist[x].req.route = "upload_chunk")
            => /\ BlobPath(n, i) \in DOMAIN fs
               /\ fs[BlobPath(n, i)] = hist[m].req.body

RECURSIVE SumLen(_, _, _, _)
SumLen(f, n, i, t) ==
    IF i >= t THEN 0 ELSE Len(f[BlobPath(n, i)]) + SumLen(f, n, i + 1, t)

SucceededFinalize(e) == e.req.route = "finalize_upload" /\ e.ok

\* C6: after a finalize that reported success, the destination is as long as
\* the chunks consumed together and no blob of that filename is left,
\* whatever indices earlier chunk-receives used (stated for the finalizes of
\* at least one chunk, where it already fails).
C6_NoBlobRemains ==
    \A j \in 1 .. Len(hist) :
        (SucceededFinalize(hist[j]) /\ int(hist[j].req.total) >= 1)
        => LET e == hist[j]
               n == e.req.filename
           IN  /\ Len(PostFs(j)[DestPath(n)]) = SumLen(e.pre, n, 0, int(e.req.total))
               /\ \A i \in IntRange : BlobPath(n, i) \notin DOMAIN PostFs(j)

\* C7 as claimed: a finalize repeated right after a successful one fails with
\* the missing-chunks error and leaves the files as they were, for every total.
C7_SecondFinalizeFails ==
    \A j \in 1 .. (Len(hist) - 1) :
        (SucceededFinalize(hist[j]) /\ hist[j + 1].req = hist[j].req)
        => /\ ~hist[j + 1].ok
           /\ hist[j + 1].info.msg = "Missing chunks"
           /\ PostFs(j + 1) = hist[j + 1].pre

\* C7, amended: the same for every total of at least 1.
C7_SecondFinalizeFailsPositive ==
    \A j \in 1 .. (Len(hist) - 1) :
        (/\ SucceededFinalize(hist[j])
         /\ hist[j + 1].req = hist[j].req
         /\ int(hist[j].req.total) >= 1)
        => /\ ~hist[j + 1].ok
           /\ hist[j + 1].info.msg = "Missing chunks"
           /\ Nums(hist[j + 1]) = 0 .. (int(hist[j].req.total) - 1)
           /\ PostFs(j + 1) = hist[j + 1].pre
           /\ DestPath(hist[j].req.filename) \in DOMAIN PostFs(j + 1)

\* finalize(2) succeeded on two stored chunks and was called again.
C7_Witness ==
    /\ Len(hist) >= 4
    /\ SucceededFinalize(hist[3])
    /\ hist[3].req = FinalizeReq(<<"a">>, "2")
    /\ hist[4].req = hist[3].req

\* response.ok of the upload page's fetch: a 2xx status.
response_ok(status) == status \in 200 .. 299

\* C8: the response to a chunk-receive or finalize has a 2xx status exactly
\* when the operation succeeded.
C8_FailureHasErrorStatus ==
    Len(hist) >= 1 /\ pc = "idle"
    => (response_ok(resp.status) <=> hist[Len(hist)].ok)

\* C9: after a finalize that failed listing the missing indices M, sending
\* exactly the chunks of M and calling finalize again succeeds; the
\* destination is all chunks in index order, those stored before the failed
\* attempt included.
C9_RetryAfterMissing ==
    \A j \in 1 .. Len(hist) : \A n \in Names : \A t \in 1 .. MaxTotal :
        LET e == hist[j]
            M == Nums(e)
            j2 == j + Cardinality(M) + 1
        IN  (/\ e.req = FinalizeReq(n, ToString(t))
             /\ ~e.ok
             /\ e.info.msg = "Missing chunks"
             /\ j2 <= Len(hist)
             /\ hist[j2].req = e.req
             /\ OnceEach(j + 1, j2 - 1, n, M))
            => LET whole == [i \in 0 .. (t - 1) |->
                               IF i \in M THEN Sent(j + 1, j2 - 1, n, i)
                               ELSE e.pre[BlobPath(n, i)]]
               IN  /\ \A i \in (0 .. (t - 1)) \ M :
                         /\ BlobPath(n, i) \in DOMAIN PostFs(j)
                         /\ PostFs(j)[BlobPath(n, i)] = e.pre[BlobPath(n, i)]
                   /\ hist[j2].ok
                   /\ PostFs(j2)[DestPath(n)] = Concat(whole, 0, t - 1)

\* Chunk 0 stored, finalize(2) failed listing chunk 1, chunk 1 sent, finalize(2).
C9_Witness ==
    /\ Len(hist) >= 4
    /\ StoredChunk(1, <<"a">>, 0)
    /\ hist[2].req = FinalizeReq(<<"a">>, "2") /\ hist[2].info = Info("Missing chunks", <<1>>)
    /\ StoredChunk(3, <<"a">>, 1)
    /\ hist[4].req = hist[2].req
    /\ hist[4].ok

-----------------------------------------------------------------------------
\* Properties of the multipart extractor.

\* The payload of a body that encodes one file part named fname.
PayloadOf(req, fname) ==
    SubSeq(req.body, Len(PartHead(fname)) + 1, Len(req.body) - Len(PartEnd))

\* C3: a body that encodes payload B as a single file part makes the
\* extractor write a destination file that holds exactly B.
C3_RoundTrip ==
    \A j \in 1 .. Len(hist) :
        LET req == hist[j].req
        IN  (req.route = "form" /\ req.body = Encode(<<"a">>, PayloadOf(req, <<"a">>)))
            => /\ hist[j].ok
               /\ DestPath(<<"a">>) \in DOMAIN PostFs(j)
               /\ PostFs(j)[DestPath(<<"a">>)] = PayloadOf(req, <<"a">>)

\* The file data of the request being extracted: the stream from the end of
\* the part headers on, and the offset in it where the rolling buffer starts.
FileData == Drop(cur.req.body, cur.data_start)
BytesRead == cur.pos - cur.data_start
BufferStart == BytesRead - Len(cur.buffer)
Extracting == pc \in {"body", "tail"} \/ (pc = "part" /\ cur.dest # <<>>)
Detected == Extracting /\ find(cur.buffer, cur.boundary) >= 0

\* C10: however the reads cut the body, the boundary token is detected by the
\* read that completes it, at the offset it has in the whole body, the file
\* then holds what one read of the whole body would have given, and the bytes
\* written never contain the token.
C10_BoundarySplitSafe ==
    /\ pc = "body" => find(Take(FileData, BytesRead), cur.boundary) < 0
    /\ Detected =>
          /\ BufferStart + find(cur.buffer, cur.boundary) = find(FileData, cur.boundary)
          /\ fs[cur.dest] = strip_eol(Take(FileData, find(FileData, cur.boundary)))
    /\ Extracting => find(fs[cur.dest], cur.boundary) < 0
    /\ \A j \in 1 .. Len(hist) : \A q \in DOMAIN PostFs(j) :
          hist[j].req.route = "form" => find(PostFs(j)[q], hist[j].req.ctype[2]) < 0

\* The token was detected after a flush kept its first byte, the last byte of
\* the read before: it straddles two reads and a flush.
C10_Witness ==
    /\ Detected
    /\ BufferStart > 0
    /\ (find(FileData, cur.boundary) + 1) % ReadQuantum = 0
    /\ find(FileData, cur.boundary) + 1 > max_chunk_size
    /\ find(cur.buffer, cur.boundary) = keep_size(cur.boundary) - 1


-----------------------------------------------------------------------------
\* Where the server writes.

\* The paths a request created, changed or removed.
Touched(before, after) ==
    {p \in (DOMAIN before) \cup (DOMAIN after) :
        \/ p \notin DOMAIN before
        \/ p \notin DOMAIN after
        \/ before[p] # after[p]}

\* C4: path confinement.  Whatever filename the client supplies, every file
\* the server writes lies inside the server root, and every path a
\* chunk-receive touches lies inside the chunk-storage directory; a request
\* that cannot be confined writes nothing.
C4_PathConfinement ==
    /\ \A p \in DOMAIN fs : IsPrefix(Root, p)
    /\ \A j \in 1 .. Len(hist) :
          hist[j].req.route = "upload_chunk"
          => \A p \in Touched(hist[j].pre, PostFs(j)) : IsPrefix(chunks_dir, p)

-----------------------------------------------------------------------------
\* Properties of the extractor on malformed and truncated bodies.

\* The request reached the check of the first line (lines 386-390): it has a
\* Content-Type with a boundary and a Content-Length.
ReadsFirstLine(req) == req.route = "form" /\ Len(req.ctype) >= 2 /\ req.clen # NoLen

\* The bytes of the body through its first LF.
FirstLine(body) ==
    IF find(body, <<LF>>) < 0 THEN body ELSE Take(body, find(body, <<LF>>) + 1)

NoInitialBoundary(e) ==
    ReadsFirstLine(e.req) /\ find(FirstLine(e.req.body), e.req.ctype[2]) < 0

\* C11: a body whose first line does not contain the declared boundary is
\* answered with the missing-initial-boundary failure, and no file is created
\* or modified.
C11_MissingInitialBoundary ==
    \A j \in 1 .. Len(hist) :
        NoInitialBoundary(hist[j])
        => /\ ~hist[j].ok
           /\ hist[j].info = Info("Content NOT begin with boundary", <<>>)
           /\ PostFs(j) = hist[j].pre

\* An upload stored a file, then a body starting with another delimiter came.
C11_Witness ==
    /\ Len(hist) >= 2
    /\ hist[1].ok /\ DestPath(<<"a">>) \in DOMAIN hist[2].pre
    /\ NoInitialBoundary(hist[2])
    /\ Take(hist[2].req.body, 3) = <<DASH, DASH, "Z">>

\* C12: every request ends with a (success/failure, detail) value that
\* do_POST renders into a response, malformed requests included: once a
\* request is over, a result page was sent for it.
C12_EveryOutcomeRendered ==
    (pc = "idle" /\ Len(hist) >= 1)
    => /\ resp.page \in {"Success!", "Failed!"}
       /\ resp.info = hist[Len(hist)].info
       /\ hist[Len(hist)].info.msg # "unhandled exception"

-----------------------------------------------------------------------------
\* Requests in progress at the same time.

\* Another chunk-receive, for another file or another index than the one in
\* progress, starts.
OtherChunkStarts ==
    \E req \in ServeChunkRequests :
        /\ req.filename # cur.req.filename \/ req.chunk # cur.req.chunk
        /\ ChunkAccept(req)

\* C13: while a chunk-receive is in progress, waiting for its body, a
\* chunk-receive for another filename or another index can start without
\* waiting for it.
C13_ChunksIndependent ==
    pc = "reading" => ENABLED OtherChunkStarts

-----------------------------------------------------------------------------
\* Validation of the chunk protocol's parameters.

LacksParameter(req) ==
    \/ /\ req.route = "upload_chunk"
       /\ req.chunk = "" \/ req.total = "" \/ req.filename = <<>>
    \/ /\ req.route = "finalize_upload"
       /\ req.filename = <<>> \/ req.total = ""

\* C14: a chunk-receive lacking chunk, total or filename, and a finalize
\* lacking filename or total, reports a validation failure and leaves every
\* blob and every destination file as it was.
C14_MissingParameterRejected ==
    \A j \in 1 .. Len(hist) :
        LacksParameter(hist[j].req)
        => /\ ~hist[j].ok
           /\ hist[j].info.msg \in {"Missing required parameters: chunk, total, filename",
                                    "Missing required parameters: filename, total"}
           /\ PostFs(j) = hist[j].pre

\* A chunk is stored, then a chunk-receive without its filename is answered.
C14_Witness ==
    /\ Len(hist) >= 2
    /\ StoredChunk(1, <<"a">>, 0)
    /\ hist[2].req.route = "upload_chunk"
    /\ hist[2].req.filename = <<>> /\ hist[2].req.chunk = "0" /\ hist[2].req.total = "1"
    /\ hist[2].pre # NoFiles

\* C15: every chunk-receive that stored a blob declared a positive total and
\* an index i with 0 <= i < total.
C15_IndexWithinTotal ==
    \A j \in 1 .. Len(hist) :
        (hist[j].req.route = "upload_chunk" /\ hist[j].ok)
        => /\ int(hist[j].req.total) > 0
           /\ 0 <= int(hist[j].req.chunk)
           /\ int(hist[j].req.chunk) < int(hist[j].req.total)

\* C18: a chunk-receive that reports success has stored the Content-Length
\* bytes of its body, all of them: a body that ends early is not stored as a
\* received chunk.
C18_WholeBodyStored ==
    \A j \in 1 .. Len(hist) :
        (hist[j].req.route = "upload_chunk" /\ hist[j].ok)
        => LET req == hist[j].req
               blob == BlobPath(req.filename, int(req.chunk))
           IN  /\ blob \in DOMAIN PostFs(j)
               /\ Len(PostFs(j)[blob]) = req.clen
               /\ PostFs(j)[blob] = Take(req.body, req.clen)

-----------------------------------------------------------------------------
\* What a request leaves alone.

\* The files the parts of a multipart body name, below the directory of the
\* request's URL.
OwnDestinations(req) ==
    {translate_path(req.url) \o <<req.body[k + 1]>> :
        k \in {x \in 1 .. (Len(req.body) - 1) : req.body[x] = CD}}

\* C16: a chunk-receive of (filename, i), successful or failed by a storage
\* error, changes at most the blob of (filename, i); a failing multipart
\* extraction changes at most the files its own parts name.  Every other blob
\* and file keeps its content.
C16_EffectsIsolated ==
    \A j \in 1 .. Len(hist) :
        LET e == hist[j]
        IN  /\ e.req.route = "upload_chunk"
               => Touched(e.pre, PostFs(j))
                     \subseteq {BlobPath(e.req.filename, int(e.req.chunk))}
            /\ (e.req.route = "form" /\ ~e.ok)
               => Touched(e.pre, PostFs(j)) \subseteq OwnDestinations(e.req)

\* A file and a blob are stored; the write of another chunk then fails and
\* leaves its own blob empty.
C16_Witness ==
    /\ Len(hist) >= 3
    /\ hist[1].req = WholeForm /\ hist[1].ok
    /\ StoredChunk(2, <<"a">>, 1)
    /\ hist[3].req.route = "upload_chunk" /\ hist[3].fault = "write"
    /\ hist[3].req.filename = <<"a">> /\ hist[3].req.chunk = "0"
    /\ Touched(hist[3].pre, PostFs(3)) = {BlobPath(<<"a">>, 0)}

-----------------------------------------------------------------------------
\* The lifecycle of one chunked upload.

\* Request j is a successful finalize of the total the chunk-receives declare:
\* the upload of its filename is ASSEMBLED.
Assembled(j) ==
    /\ SucceededFinalize(hist[j])
    /\ int(hist[j].req.total) = MaxTotal

\* C17: ASSEMBLED is entered from COMPLETE, every chunk below the total being
\* present, and is terminal: no later request for the filename stores a chunk
\* again, which would take the upload back to RECEIVING.
C17_AssembledIsTerminal ==
    \A j \in 1 .. Len(hist) :
        Assembled(j)
        => /\ Absent(hist[j].pre, hist[j].req.filename, MaxTotal) = {}
           /\ \A m \in (j + 1) .. Len(hist) :
                 hist[m].req.filename = hist[j].req.filename
                 => \A i \in IntRange :
                       BlobPath(hist[j].req.filename, i) \notin DOMAIN PostFs(m)

-----------------------------------------------------------------------------
\* The end of an extraction.

\* The stream of the request ends before the declared length and the boundary
\* token does not occur after the first line.
EndsEarly(req) ==
    /\ ReadsFirstLine(req)
    /\ Len(req.body) < req.clen
    /\ find(Drop(req.body, Len(FirstLine(req.body))), req.ctype[2]) < 0

\* C19: a multipart body that ends before the declared Content-Length and
\* before the closing boundary was seen is answered with a failure that lists
\* no file as uploaded.
C19_TruncatedBodyFails ==
    \A j \in 1 .. Len(hist) :
        EndsEarly(hist[j].req)
        => /\ ~hist[j].ok
           /\ hist[j].info.files = <<>>

\* The stream ended in the file data after a flush had written part of it.
C19_Witness ==
    /\ Len(hist) >= 1
    /\ EndsEarly(hist[1].req)
    /\ hist[1].req.body = Take(LongForm.body, Len(hist[1].req.body))
    /\ DestPath(<<"a">>) \in DOMAIN PostFs(1)
    /\ PostFs(1)[DestPath(<<"a">>)] # <<>>

\* The body is complete, starts with the headers of a file part named fname,
\* and the boundary token follows in the file data.
TokenAfterFile(req, fname) ==
    /\ ReadsFirstLine(req)
    /\ req.clen = Len(req.body)
    /\ Take(req.body, Len(PartHead(fname))) = PartHead(fname)
    /\ find(Drop(req.body, Len(PartHead(fname))), req.ctype[2]) >= 0

\* C20: once the boundary token is found after the file data, the extraction
\* is complete: the request reports success naming that file, the file holds
\* the data before the token, and nothing else is parsed or written, also
\* when another part follows.
C20_ExtractionCompleteAtBoundary ==
    \A j \in 1 .. Len(hist) : \A fname \in {<<"a">>, <<"b">>} :
        (TokenAfterFile(hist[j].req, fname) /\ hist[j].fault = "none")
        => LET data == Drop(hist[j].req.body, Len(PartHead(fname)))
           IN  /\ hist[j].ok
               /\ hist[j].info.files = fname
               /\ Touched(hist[j].pre, PostFs(j)) \subseteq {DestPath(fname)}
               /\ PostFs(j)[DestPath(fname)]
                     = strip_eol(Take(data, find(data, hist[j].req.ctype[2])))

-----------------------------------------------------------------------------
\* Properties of the extractor under requests whose declared length or part
\* headers differ from a browser's.

\* C21: the extractor never consumes more bytes of the request stream than the
\* Content-Length header declares: at every point of the handler the number of
\* bytes taken from the stream is at most the declared length.
C21_NeverReadsPastLength ==
    pc \in {"part", "body", "tail"} => cur.pos <= cur.req.clen

-----------------------------------------------------------------------------
\* The states an assembly passes through and the state a failure leaves.

\* The blobs lo..hi of n in filesystem f, concatenated in ascending order.
Blobs(f, n, lo, hi) == Concat([i \in lo .. hi |-> f[BlobPath(n, i)]], lo, hi)

\* Assembly of (n, t) stands at chunk j: the destination holds the chunks
\* below j and then the bytes of tail, the blobs below j are gone, the blobs
\* from j on are as they were before the request.
AssemblyAt(before, after, n, t, j, tail) ==
    /\ DestPath(n) \in DOMAIN after
    /\ after[DestPath(n)] = Blobs(before, n, 0, j - 1) \o tail
    /\ \A k \in 0 .. (j - 1) : BlobPath(n, k) \notin DOMAIN after
    /\ \A k \in j .. (t - 1) :
          BlobPath(n, k) \in DOMAIN after /\ after[BlobPath(n, k)] = before[BlobPath(n, k)]

\* Entry e is a finalize that failed inside the copy loop.
FailedInAssembly(e) ==
    e.req.route = "finalize_upload" /\ ~e.ok /\ e.fault \in {"read", "write", "remove"}

\* The chunk the assembly of entry j failed at: the lowest blob left.
FailedChunk(j) ==
    CHOOSE k \in 0 .. (int(hist[j].req.total) - 1) :
        /\ BlobPath(hist[j].req.filename, k) \in DOMAIN PostFs(j)
        /\ \A m \in 0 .. (k - 1) : BlobPath(hist[j].req.filename, m) \notin DOMAIN PostFs(j)

-----------------------------------------------------------------------------
\* The flush of the rolling buffer.

\* C23: while the file data is read, the bytes written followed by the
\* buffer are the file bytes read so far, in order; once a flush has written,
\* the buffer holds at least len(boundary) + 2 bytes; and the bytes written
\* end before the line end and the dashes that precede the first boundary
\* token of the data, so no delimiter is partly in the output and partly in
\* the buffer.
C23_FlushKeepsTail ==
    pc = "body" =>
        /\ fs[cur.dest] \o cur.buffer = Take(FileData, BytesRead)
        /\ cur.bytes_written = Len(fs[cur.dest])
        /\ cur.bytes_written > 0 => Len(cur.buffer) >= Len(cur.boundary) + 2
        /\ find(FileData, cur.boundary) >= 0
              => Len(fs[cur.dest]) + 4 <= find(FileData, cur.boundary)

\* A flush has just written while the last byte read was the first byte of
\* the token: the buffer kept the line end, the dashes and that byte.
C23_Witness ==
    /\ pc = "body"
    /\ cur.bytes_written > 0
    /\ Len(cur.buffer) = keep_size(cur.boundary)
    /\ find(FileData, cur.boundary) = BytesRead - 1
    /\ endswith(cur.buffer, <<CR, LF, DASH, DASH, "X">>)

-----------------------------------------------------------------------------
\* The headers of a part.

\* C24: whatever header lines the part carries after Content-Disposition
\* (a Content-Type line, none, or one more), the file data begins right after
\* the blank line that ends the headers: no payload byte is consumed as a
\* header line and no header byte is taken as file data.
C24_PayloadAfterBlankLine ==
    \A H \in PartHeads(<<"a">>) :
        (/\ pc \in {"body", "tail"}
         /\ cur.req.clen = Len(cur.req.body)
         /\ IsPrefix(H, cur.req.body))
        => cur.data_start = Len(H)

\* The line after the first line of the body: the header line of the first
\* part.
HeaderLine(body) == FirstLine(Drop(body, Len(FirstLine(body))))

\* The line holds the Content-Disposition text of a file field and a closing
\* quote after it.
NamesFile(line) ==
    \E c \in DOMAIN line : \E q \in DOMAIN line : line[c] = CD /\ line[q] = QT /\ q > c

\* The first line holds the boundary, the declared length reaches into the
\* first part, and the header line of that part names no file.
FirstPartUnnamed(e) ==
    /\ ReadsFirstLine(e.req)
    /\ find(FirstLine(e.req.body), e.req.ctype[2]) >= 0
    /\ e.req.clen > Len(FirstLine(e.req.body))
    /\ ~NamesFile(HeaderLine(e.req.body))

\* C25: a request whose first part has no Content-Disposition line with
\* name="file" and a filename is answered with the no-filename failure, and no
\* file is created or modified by it.
C25_UnnamedPartRejected ==
    \A j \in 1 .. Len(hist) :
        FirstPartUnnamed(hist[j])
        => /\ ~hist[j].ok
           /\ hist[j].info = Info("Can't find out file name...", <<>>)
           /\ PostFs(j) = hist[j].pre

\* An upload stored file a, then a part with a Content-Type line in place of
\* the Content-Disposition line came.
C25_Witness ==
    /\ Len(hist) >= 2
    /\ hist[1].req = WholeForm /\ hist[1].ok
    /\ DestPath(<<"a">>) \in DOMAIN hist[2].pre
    /\ FirstPartUnnamed(hist[2])
    /\ find(hist[2].req.body, <<CD>>) < 0
    /\ Len(hist[2].req.body) = Len(WholeForm.body)

-----------------------------------------------------------------------------
\* The memory the extractor holds.

\* C26: the rolling buffer never holds more than the flush threshold plus one
\* read quantum; and every step of the body loop takes at most one read
\* quantum from the stream and at most the declared bytes that remained.
C26_BoundedBuffer ==
    /\ [](Len(cur.buffer) <= max_chunk_size + ReadQuantum)
    /\ [][pc = "body"
             => /\ cur'.pos - cur.pos <= ReadQuantum
                /\ cur'.pos - cur.pos <= Max(cur.remainbytes, 0)
                /\ Len(cur'.buffer) <= Len(cur.buffer) + ReadQuantum]_vars

\* After a flush, the read that completed the token filled the buffer beyond
\* the threshold.
C26_Witness ==
    /\ Detected
    /\ BufferStart > 0
    /\ Len(cur.buffer) > max_chunk_size

-----------------------------------------------------------------------------
\* Finalize under the server's scheduling.

\* Some request of the protocol is taken up.
StartsRequest ==
    \/ \E req \in ChunkRequests : ChunkUpload(req, "none", 0)
    \/ \E req \in FinalizeRequests : FinalizeStart(req, "none")

\* Entries j and j + 1 are finalizes of one filename, each for a total of at
\* least 1 whose chunks were all stored when the first was taken up.
RacingFinalizes(j) ==
    /\ hist[j].req.route = "finalize_upload"
    /\ hist[j + 1].req.route = "finalize_upload"
    /\ hist[j + 1].req.filename = hist[j].req.filename
    /\ \A m \in {j, j + 1} :
          /\ hist[m].req.filename # <<>>
          /\ IsInt(hist[m].req.total)
          /\ int(hist[m].req.total) >= 1
          /\ Absent(hist[j].pre, hist[m].req.filename, int(hist[m].req.total)) = {}

\* C27: while a finalize checks, assembles and deletes, no other request is
\* taken up, and every step taken belongs to that finalize; so of two
\* finalizes of one filename issued when all chunks are stored, the first one
\* handled succeeds, the other fails, and the destination then holds the whole
\* concatenation.
C27_FinalizeNotInterleaved ==
    /\ [](pc = "assemble" => ~ENABLED StartsRequest)
    /\ [][pc = "assemble"
             => \/ pc' = "assemble" /\ cur'.req = cur.req /\ hist' = hist
                \/ /\ pc' = "idle"
                   /\ Len(hist') = Len(hist) + 1
                   /\ hist'[Len(hist')].req = cur.req]_vars
    /\ [](\A j \in 1 .. (Len(hist) - 1) :
             RacingFinalizes(j)
             => LET n == hist[j].req.filename
                IN  /\ hist[j].ok
                    /\ ~hist[j + 1].ok
                    /\ PostFs(j + 1)[DestPath(n)]
                          = Blobs(hist[j].pre, n, 0, int(hist[j].req.total) - 1))

\* Two chunks were stored, finalize(2) assembled them and a finalize of the
\* same file that followed found its chunks gone.
C27_Witness ==
    /\ Len(hist) >= 4
    /\ RacingFinalizes(3)
    /\ hist[3].req = FinalizeReq(<<"a">>, "2")
    /\ hist[3].ok
    /\ ~hist[4].ok
    /\ Len(PostFs(4)[DestPath(<<"a">>)]) >= 2

-----------------------------------------------------------------------------
\* Termination of the extractor.

\* C28: a multipart request that was taken up is answered or ends: the part
\* loop and the body loop do not run forever, whatever the body holds and
\* whatever length was declared; a pass of the part loop that opens a file and
\* a pass of the body loop that does not break decrease the remaining-byte
\* counter.
C28_ExtractorTerminates ==
    /\ (pc \in {"part", "body", "tail"}) ~> (pc = "idle")
    /\ [][/\ (pc = "part" /\ pc' = "body") => cur'.remainbytes < cur.remainbytes
          /\ (pc = "body" /\ pc' = "body") => cur'.remainbytes < cur.remainbytes
          /\ pc \in {"body", "tail"} => cur'.remainbytes <= cur.remainbytes]_vars

\* The stream ended while declared bytes were outstanding and the body loop
\* has broken on the empty read.
C28_Witness ==
    /\ pc = "tail"
    /\ cur.remainbytes > 0
    /\ cur.pos = Len(cur.req.body)
    /\ cur.bytes_written > 0

-----------------------------------------------------------------------------
\* The upload page's script (lines 164-294) in front of the server.  A file is
\* cut into chunks of CHUNK_SIZE bytes (90 MiB in the page, scaled here);
\* uploadFileInChunks awaits every fetch before it issues the next.  The
\* script keeps no state of its own between two requests but the loop index
\* and the last response, which the request log and resp determine.
CHUNK_SIZE == 2

\* Files of two chunks (the second shorter), of no byte, of exactly one chunk.
ClientFiles ==
    {[name |-> <<"a">>, data |-> Filler(CHUNK_SIZE) \o <<"x">>],
     [name |-> <<"b">>, data |-> <<>>],
     [name |-> <<"c">>, data |-> Filler(CHUNK_SIZE)]}

\* Line 250: Math.ceil(file.size / CHUNK_SIZE).
totalChunks(file) == (Len(file.data) + CHUNK_SIZE - 1) \div CHUNK_SIZE

\* Lines 254-256 and 268-277: the request for file.slice(start, end).
uploadChunk(file, chunkIndex) ==
    ChunkReq(ToString(chunkIndex), ToString(totalChunks(file)), file.name,
             SubSeq(file.data, chunkIndex * CHUNK_SIZE + 1,
                    Min((chunkIndex + 1) * CHUNK_SIZE, Len(file.data))))

\* Lines 284-289.
finalizeUpload(file) == FinalizeReq(file.name, ToString(totalChunks(file)))

\* A script that goes on after a response that was not OK.
uploadFileInChunks_unchecked(file, sent, ok) ==
    IF sent < totalChunks(file) THEN {uploadChunk(file, sent)}
    ELSE IF sent = totalChunks(file) THEN {finalizeUpload(file)}
    ELSE {}

\* Lines 249-266, with the throw of lines 279 and 291: the request the script
\* issues next for a file of which it has sent `sent` requests, the last of
\* them answered OK or not; none after a response that was not OK, none after
\* the finalize.
uploadFileInChunks(file, sent, ok) ==
    IF sent > 0 /\ ~ok THEN {}
    ELSE IF sent < totalChunks(file) THEN {uploadChunk(file, sent)}
    ELSE IF sent = totalChunks(file) THEN {finalizeUpload(file)}
    ELSE {}

\* The logged requests that name file n.
RequestsFor(h, n) == SelectSeq(h, LAMBDA e : e.req.filename = n)

\* Lines 225-247: the request the page issues next: the next one of the file
\* it is uploading, or, when that upload has ended or was given up, the first
\* request of a file it has not uploaded yet.
ClientNext ==
    LET starts == UNION {uploadFileInChunks(f, 0, TRUE) :
                            f \in {g \in ClientFiles : RequestsFor(hist, g.name) = <<>>}}
    IN  IF hist = <<>> THEN starts
        ELSE LET f == CHOOSE g \in ClientFiles : g.name = hist[Len(hist)].req.filename
                 next == uploadFileInChunks(f, Len(RequestsFor(hist, f.name)),
                                            response_ok(resp.status))
             IN  IF next # {} THEN next ELSE starts

\* Line 271: the fetch is rejected, or answered by something between the page
\* and the server with an error status; the server does not see the request.
FetchFails(req, status) ==
    /\ Accepting
    /\ status \in {0, 502}
    /\ resp' = [NoResp EXCEPT !.status = status]
    /\ hist' = Append(hist, [req |-> req, ok |-> FALSE, info |-> Info("no response", <<>>),
                             pre |-> fs, fault |-> "net"])
    /\ UNCHANGED <<fs, dirs, pc, cur>>

NextClient ==
    \/ \E req \in ClientNext, fault \in {"none", "open"} : ChunkUpload(req, fault, 0)
    \/ \E req \in ClientNext : FinalizeStart(req, "none")
    \/ \E req \in ClientNext, status \in {0, 502} : FetchFails(req, status)
    \/ FinalizeCopy("none", 0)
    \/ FinalizeReturn

SpecClient == Init /\ [][NextClient]_vars

\* Some request of the page is taken up or fails.
NextClientSend ==
    \/ \E req \in ClientNext, fault \in {"none", "open"} : ChunkUpload(req, fault, 0)
    \/ \E req \in ClientNext : FinalizeStart(req, "none")
    \/ \E req \in ClientNext, status \in {0, 502} : FetchFails(req, status)

\* The page saw a 2xx status for a logged request: the server answers 200
\* whatever the handler returned.
AnsweredOK(e) == e.fault # "net"

\* The requests sent so far: the log and the finalize being handled.
SentLog ==
    IF pc = "idle" THEN hist
    ELSE Append(hist, [req |-> cur.req, ok |-> FALSE, info |-> Info("", <<>>),
                       pre |-> cur.pre, fault |-> "none"])

\* C29: for every file the page sends chunk 0, chunk 1, ... in this order,
\* each with the file's chunk count and its slice of the file, then the
\* finalize, and nothing more; every request but the first follows a request
\* of that file that was answered OK, so the finalize follows totalChunks
\* chunk requests answered OK and nothing follows a request that was not
\* answered OK; and a request is sent only when the one before was answered
\* or failed.
C29_ClientSendsInOrder ==
    /\ \A f \in ClientFiles :
          LET S == RequestsFor(SentLog, f.name)
          IN  /\ Len(S) <= totalChunks(f) + 1
              /\ \A k \in 1 .. Len(S) :
                    /\ k <= totalChunks(f) => S[k].req = uploadChunk(f, k - 1)
                    /\ k = totalChunks(f) + 1 => S[k].req = finalizeUpload(f)
                    /\ k > 1 => AnsweredOK(S[k - 1])
    /\ (pc = "idle" /\ hist # <<>>)
          => response_ok(resp.status) = AnsweredOK(hist[Len(hist)])
    /\ pc # "idle" => ~ENABLED NextClientSend

\* Chunk 0 of file a was answered OK although the server could not store it,
\* chunk 1 was not answered OK, and the page went on with file b only.
C29_Witness ==
    /\ Len(hist) >= 3
    /\ hist[1].req = uploadChunk([name |-> <<"a">>, data |-> Filler(CHUNK_SIZE) \o <<"x">>], 0)
    /\ ~hist[1].ok /\ AnsweredOK(hist[1])
    /\ hist[2].req.chunk = "1" /\ ~AnsweredOK(hist[2])
    /\ hist[3].req.filename = <<"b">>
    /\ pc = "idle"

=============================================================================
